---- MODULE Spec2Model ----
\* Control-plane data model of the JetStream client (src/src/jetstream_types.rs):
\* the records, their derived Default / From<&str> constructors and their derived
\* serde Serialize / Deserialize behaviour over a JSON document.
EXTENDS Integers, Sequences, FiniteSets, TLC

VARIABLES ty, rec, doc, res, last, origin, arg, edits

vars == <<ty, rec, doc, res, last, origin, arg, edits>>

\* Bound: field updates plus wire alterations applied to one value.
MaxEdits == 1

\* ---------------------------------------------------------------------------
\* Small helpers
\* ---------------------------------------------------------------------------

None == <<>>

Some(x) == <<x>>

Range(s) == {s[i] : i \in DOMAIN s}

First(S) == CHOOSE i \in S : \A h \in S : i <= h

\* ---------------------------------------------------------------------------
\* JSON documents: the wire form. An object keeps its members in document
\* order, duplicates included, as the deserializer sees them.
\* ---------------------------------------------------------------------------

JNull == [t |-> "null", v |-> <<>>]

JStr(s) == [t |-> "str", v |-> <<s>>]

JNum(n) == [t |-> "num", v |-> <<n>>]

JBool(b) == [t |-> "bool", v |-> <<b>>]

JArr(items) == [t |-> "arr", v |-> items]

JObj(members) == [t |-> "obj", v |-> members]

Member(k, val) == [k |-> k, val |-> val]

\* ---------------------------------------------------------------------------
\* Decode results and errors (serde::de::Error constructors)
\* ---------------------------------------------------------------------------

Er(kind, what, exp) == [kind |-> kind, what |-> what, exp |-> exp]

NoErr == Er("none", "", <<>>)

Ok(x) == [ok |-> TRUE, val |-> <<x>>, err |-> NoErr]

Fail(e) == [ok |-> FALSE, val |-> <<>>, err |-> e]

\* ---------------------------------------------------------------------------
\* Policy enumerations: variant, serde wire tag, #[repr(u8)] discriminant
\* ---------------------------------------------------------------------------

V(variant, tag, disc) == [variant |-> variant, tag |-> tag, disc |-> disc]

DeliverPolicyVariants ==
    << V("DeliverAllPolicy", "all", 0),
       V("DeliverLastPolicy", "last", 1),
       V("DeliverNewPolicy", "new", 2),
       V("DeliverByStartSequencePolicy", "by_start_sequence", 3),
       V("DeliverByStartTimePolicy", "by_start_time", 4) >>

\* AckPolicyNotSet carries no #[serde(rename)]: its tag is the variant's name.
AckPolicyVariants ==
    << V("AckNone", "none", 0),
       V("AckAll", "all", 1),
       V("AckExplicit", "explicit", 2),
       V("AckPolicyNotSet", "AckPolicyNotSet", 99) >>

ReplayPolicyVariants ==
    << V("ReplayInstant", "instant", 0),
       V("ReplayOriginal", "original", 1) >>

RetentionPolicyVariants ==
    << V("LimitsPolicy", "limits", 0),
       V("InterestPolicy", "interest", 1),
       V("WorkQueuePolicy", "workqueue", 2) >>

DiscardPolicyVariants ==
    << V("DiscardOld", "old", 0),
       V("DiscardNew", "new", 1) >>

StorageTypeVariants ==
    << V("FileStorage", "file", 0),
       V("MemoryStorage", "memory", 1) >>

Enums ==
    {"DeliverPolicy", "AckPolicy", "ReplayPolicy", "RetentionPolicy",
     "DiscardPolicy", "StorageType"}

EnumTable(e) ==
    CASE e = "DeliverPolicy" -> DeliverPolicyVariants
      [] e = "AckPolicy" -> AckPolicyVariants
      [] e = "ReplayPolicy" -> ReplayPolicyVariants
      [] e = "RetentionPolicy" -> RetentionPolicyVariants
      [] e = "DiscardPolicy" -> DiscardPolicyVariants
      [] e = "StorageType" -> StorageTypeVariants

Variants(e) == {EnumTable(e)[i].variant : i \in DOMAIN EnumTable(e)}

\* Serialize of a unit variant: its (renamed) name as a string.
VariantTag(e, x) ==
    LET T == EnumTable(e)
    IN  T[CHOOSE i \in DOMAIN T : T[i].variant = x].tag

\* The generated field visitor: the first variant whose name matches.
TagMatches(e, s) == {i \in DOMAIN EnumTable(e) : EnumTable(e)[i].tag = s}

ExpectedTags(e) == [i \in DOMAIN EnumTable(e) |-> EnumTable(e)[i].tag]

\* impl Default for each enumeration
DefaultAckFirstVariant == "AckNone"

DefaultDeliverPolicy == "DeliverAllPolicy"

DefaultAckPolicy == "AckExplicit"

DefaultReplayPolicy == "ReplayInstant"

DefaultRetentionPolicy == "LimitsPolicy"

DefaultDiscardPolicy == "DiscardOld"

DefaultStorageType == "FileStorage"

EnumDefault(e) ==
    CASE e = "DeliverPolicy" -> DefaultDeliverPolicy
      [] e = "AckPolicy" -> DefaultAckPolicy
      [] e = "ReplayPolicy" -> DefaultReplayPolicy
      [] e = "RetentionPolicy" -> DefaultRetentionPolicy
      [] e = "DiscardPolicy" -> DefaultDiscardPolicy
      [] e = "StorageType" -> DefaultStorageType

\* ---------------------------------------------------------------------------
\* DateTime: a newtype over chrono's DateTime<Utc>, a point in time held as
\* whole seconds and nanoseconds since the Unix epoch.
\* ---------------------------------------------------------------------------

Time(secs, nanos) == [secs |-> secs, nanos |-> nanos]

\* impl Default for DateTime: UNIX_EPOCH
DefaultDateTime == Time(0, 0)

\* The instants the model builds and parses (all within the first ten seconds).
TimeVals == {Time(0, 0), Time(1, 500000000), Time(2, 1000), Time(1, 1)}

Pad(n, width) ==
    LET s == ToString(n)
        RECURSIVE Zeros(_)
        Zeros(k) == IF k <= 0 THEN "" ELSE "0" \o Zeros(k - 1)
        digits == IF n < 10 THEN 1
                  ELSE IF n < 100 THEN 2
                  ELSE IF n < 1000 THEN 3
                  ELSE IF n < 10000 THEN 4
                  ELSE IF n < 100000 THEN 5
                  ELSE IF n < 1000000 THEN 6
                  ELSE IF n < 10000000 THEN 7
                  ELSE IF n < 100000000 THEN 8
                  ELSE 9
    IN  Zeros(width - digits) \o s

\* chrono prints the fraction with 0, 3, 6 or 9 digits, whichever is exact.
Fraction(nanos) ==
    IF nanos = 0 THEN ""
    ELSE IF nanos % 1000000 = 0 THEN "." \o Pad(nanos \div 1000000, 3)
    ELSE IF nanos % 1000 = 0 THEN "." \o Pad(nanos \div 1000, 6)
    ELSE "." \o Pad(nanos, 9)

\* An instant in RFC 3339 form with the given offset designator.
Rfc3339(dt, offset) ==
    "1970-01-01T00:00:0" \o ToString(dt.secs) \o Fraction(dt.nanos) \o offset

\* plausible slip: a seconds-resolution format string
FormatTimeWholeSeconds(dt) == "1970-01-01T00:00:0" \o ToString(dt.secs) \o "Z"

\* Serialize for DateTime<Utc>: RFC 3339 with the UTC designator Z.
FormatTime(dt) == Rfc3339(dt, "Z")

\* Deserialize for DateTime<Utc>: parse an RFC 3339 string (Z or a numeric
\* offset), or fail.
ParseTime(s) ==
    LET hits == {dt \in TimeVals : s = Rfc3339(dt, "Z") \/ s = Rfc3339(dt, "+00:00")}
    IN  IF hits = {}
        THEN Fail(Er("custom", "input contains invalid characters", <<>>))
        ELSE Ok(CHOOSE dt \in hits : TRUE)

\* ---------------------------------------------------------------------------
\* Record schemas: one descriptor per declared field, in declaration order.
\*   name  the Rust field, key  its wire key,
\*   opt   Option<..>,  vec  Vec<..>,
\*   k/n   the element type (str, bool, int:<width>, enum:<E>, struct:<S>, time),
\*   dflt  #[serde(default)]
\* ---------------------------------------------------------------------------

Fd(name, key, opt, vec, k, n, dflt) ==
    [name |-> name, key |-> key, opt |-> opt, vec |-> vec,
     k |-> k, n |-> n, dflt |-> dflt]

Req(name, k, n) == Fd(name, name, FALSE, FALSE, k, n, FALSE)

Opt(name, k, n) == Fd(name, name, TRUE, FALSE, k, n, FALSE)

CreateConsumerRequestFields ==
    << Req("stream_name", "str", ""),
       Req("config", "struct", "ConsumerConfig") >>

ConsumerConfigFields ==
    << Opt("durable_name", "str", ""),
       Opt("deliver_subject", "str", ""),
       Req("deliver_policy", "enum", "DeliverPolicy"),
       Opt("opt_start_seq", "int", "i64"),
       Opt("opt_start_time", "time", ""),
       Req("ack_policy", "enum", "AckPolicy"),
       Opt("ack_wait", "int", "isize"),
       Opt("max_deliver", "int", "i64"),
       Opt("filter_subject", "str", ""),
       Req("replay_policy", "enum", "ReplayPolicy"),
       Opt("rate_limit", "int", "i64"),
       Opt("sample_frequency", "str", ""),
       Opt("max_waiting", "int", "i64"),
       Opt("max_ack_pending", "int", "i64") >>

StreamConfigFields ==
    << Fd("subjects", "subjects", TRUE, TRUE, "str", "", FALSE),
       Req("name", "str", ""),
       Req("retention", "enum", "RetentionPolicy"),
       Req("max_consumers", "int", "isize"),
       Req("max_msgs", "int", "i64"),
       Req("max_bytes", "int", "i64"),
       Req("discard", "enum", "DiscardPolicy"),
       Req("max_age", "int", "isize"),
       Opt("max_msg_size", "int", "i32"),
       Req("storage", "enum", "StorageType"),
       Req("num_replicas", "int", "usize"),
       Opt("no_ack", "bool", ""),
       Opt("template_owner", "str", ""),
       Opt("duplicate_window", "int", "isize") >>

StreamInfoFields ==
    << Req("type", "str", ""),
       Req("config", "struct", "StreamConfig"),
       Req("created", "time", ""),
       Req("state", "struct", "StreamState") >>

StreamStateFields ==
    << Fd("msgs", "msgs", FALSE, FALSE, "int", "u64", TRUE),
       Req("bytes", "int", "u64"),
       Req("first_seq", "int", "u64"),
       Req("first_ts", "str", ""),
       Req("last_seq", "int", "u64"),
       Req("last_ts", "time", ""),
       Req("consumer_count", "int", "usize") >>

AccountLimitsFields ==
    << Req("max_memory", "int", "i64"),
       Req("max_storage", "int", "i64"),
       Req("max_streams", "int", "i64"),
       Req("max_consumers", "int", "i64") >>

AccountStatsFields ==
    << Req("memory", "int", "u64"),
       Req("storage", "int", "u64"),
       Req("streams", "int", "usize"),
       Req("limits", "struct", "AccountLimits") >>

PubAckFields ==
    << Req("stream", "str", ""),
       Req("seq", "int", "u64"),
       Opt("duplicate", "bool", "") >>

\* plausible slip: the two sequence pairs bound to each other's wire key
ConsumerInfoFieldsSwapped ==
    << Req("type", "str", ""),
       Req("stream_name", "str", ""),
       Req("name", "str", ""),
       Req("created", "time", ""),
       Req("config", "struct", "ConsumerConfig"),
       Fd("delivered", "ack_floor", FALSE, FALSE, "struct", "SequencePair", FALSE),
       Fd("ack_floor", "delivered", FALSE, FALSE, "struct", "SequencePair", FALSE),
       Req("num_ack_pending", "int", "usize"),
       Req("num_redelivered", "int", "usize"),
       Req("num_waiting", "int", "usize"),
       Req("num_pending", "int", "u64"),
       Req("cluster", "struct", "ClusterInfo") >>

ConsumerInfoFields ==
    << Req("type", "str", ""),
       Req("stream_name", "str", ""),
       Req("name", "str", ""),
       Req("created", "time", ""),
       Req("config", "struct", "ConsumerConfig"),
       Req("delivered", "struct", "SequencePair"),
       Req("ack_floor", "struct", "SequencePair"),
       Req("num_ack_pending", "int", "usize"),
       Req("num_redelivered", "int", "usize"),
       Req("num_waiting", "int", "usize"),
       Req("num_pending", "int", "u64"),
       Req("cluster", "struct", "ClusterInfo") >>

ClusterInfoFields == << Req("leader", "str", "") >>

SequencePairFields ==
    << Req("consumer_seq", "int", "u64"),
       Req("stream_seq", "int", "u64") >>

NextRequestFields ==
    << Req("expires", "time", ""),
       Opt("batch", "int", "usize"),
       Opt("no_wait", "bool", "") >>

StreamRequestFields == << Opt("subject", "str", "") >>

SubOptsFields ==
    << Req("stream", "str", ""),
       Req("consumer", "str", ""),
       Req("pull", "int", "usize"),
       Req("mack", "bool", ""),
       Req("cfg", "struct", "ConsumerConfig") >>

PubOptsFields ==
    << Req("ttl", "int", "isize"),
       Req("id", "str", ""),
       Req("lid", "str", ""),
       Req("str", "str", ""),
       Req("seq", "int", "u64") >>

AccountInfoFields ==
    << Req("type", "str", ""),
       Req("memory", "int", "i64"),
       Req("storage", "int", "i64"),
       Req("streams", "int", "i64"),
       Req("consumers", "int", "i64"),
       Req("api", "struct", "ApiStats"),
       Req("limits", "struct", "AccountLimits") >>

ApiStatsFields ==
    << Req("total", "int", "u64"),
       Req("errors", "int", "u64") >>

Fields(s) ==
    CASE s = "CreateConsumerRequest" -> CreateConsumerRequestFields
      [] s = "ConsumerConfig" -> ConsumerConfigFields
      [] s = "StreamConfig" -> StreamConfigFields
      [] s = "StreamInfo" -> StreamInfoFields
      [] s = "StreamState" -> StreamStateFields
      [] s = "AccountLimits" -> AccountLimitsFields
      [] s = "AccountStats" -> AccountStatsFields
      [] s = "PubAck" -> PubAckFields
      [] s = "ConsumerInfo" -> ConsumerInfoFields
      [] s = "ClusterInfo" -> ClusterInfoFields
      [] s = "SequencePair" -> SequencePairFields
      [] s = "NextRequest" -> NextRequestFields
      [] s = "StreamRequest" -> StreamRequestFields
      [] s = "SubOpts" -> SubOptsFields
      [] s = "PubOpts" -> PubOptsFields
      [] s = "AccountInfo" -> AccountInfoFields
      [] s = "ApiStats" -> ApiStatsFields

FieldNames(s) == {Fields(s)[i].name : i \in DOMAIN Fields(s)}

FieldKeys(s) == {Fields(s)[i].key : i \in DOMAIN Fields(s)}

Unsigned(n) == n \in {"u64", "usize"}

\* ---------------------------------------------------------------------------
\* #[derive(Default)]: every field at its type's Default::default()
\* ---------------------------------------------------------------------------

RECURSIVE DefaultOf(_)

FieldDefault(f) ==
    IF f.opt THEN None
    ELSE IF f.vec THEN <<>>
    ELSE CASE f.k = "str" -> ""
           [] f.k = "bool" -> FALSE
           [] f.k = "int" -> 0
           [] f.k = "enum" -> EnumDefault(f.n)
           [] f.k = "time" -> DefaultDateTime
           [] f.k = "struct" -> DefaultOf(f.n)

DefaultOf(s) ==
    LET F == Fields(s)
    IN  [x \in FieldNames(s) |->
            FieldDefault(F[CHOOSE i \in DOMAIN F : F[i].name = x])]

\* plausible slip: the shorthand also fills the subject list
StreamConfigFromWithSubject(s) ==
    [DefaultOf("StreamConfig") EXCEPT !.name = s, !.subjects = Some(<<s>>)]

\* impl From<&str> for StreamConfig
StreamConfigFrom(s) == [DefaultOf("StreamConfig") EXCEPT !.name = s]

\* impl From<&str> for ConsumerConfig
ConsumerConfigFrom(s) ==
    [DefaultOf("ConsumerConfig") EXCEPT !.durable_name = Some(s)]

\* ---------------------------------------------------------------------------
\* #[derive(Serialize)]: every field, in declaration order, under its key.
\* No field carries skip_serializing_if, so None is written as null.
\* ---------------------------------------------------------------------------

RECURSIVE SerStruct(_, _)

SerBase(f, x) ==
    CASE f.k = "str" -> JStr(x)
      [] f.k = "bool" -> JBool(x)
      [] f.k = "int" -> JNum(x)
      [] f.k = "enum" -> JStr(VariantTag(f.n, x))
      [] f.k = "time" -> JStr(FormatTime(x))
      [] f.k = "struct" -> SerStruct(f.n, x)

SerInner(f, x) ==
    IF f.vec THEN JArr([i \in DOMAIN x |-> SerBase(f, x[i])]) ELSE SerBase(f, x)

SerField(f, x) ==
    IF f.opt
    THEN IF x = None THEN JNull ELSE SerInner(f, x[1])
    ELSE SerInner(f, x)

SerStruct(s, r) ==
    LET F == Fields(s)
    IN  JObj([i \in DOMAIN F |-> Member(F[i].key, SerField(F[i], r[F[i].name]))])

\* ---------------------------------------------------------------------------
\* #[derive(Deserialize)]
\* ---------------------------------------------------------------------------

RECURSIVE DeStruct(_, _)

\* A unit variant: its tag as a string, or the single-member object {tag: null}.
DeEnum(e, j) ==
    LET tag == IF j.t = "str" THEN j.v[1] ELSE j.v[1].k
        hits == TagMatches(e, tag)
        T == EnumTable(e)
        found == T[First(hits)].variant
    IN  IF j.t = "str"
        THEN IF hits = {}
             THEN Fail(Er("unknown_variant", tag, ExpectedTags(e)))
             ELSE Ok(found)
        ELSE IF j.t = "obj"
        THEN IF Len(j.v) = 0
             THEN Fail(Er("syntax", "expected value", <<>>))
             ELSE IF hits = {}
             THEN Fail(Er("unknown_variant", tag, ExpectedTags(e)))
             ELSE IF j.v[1].val.t # "null"
             THEN Fail(Er("invalid_type", j.v[1].val.t, <<"unit variant">>))
             ELSE IF Len(j.v) > 1
             THEN Fail(Er("syntax", "expected end of object", <<>>))
             ELSE Ok(found)
        ELSE Fail(Er("syntax", "expected value", <<>>))

DeInt(n, j) ==
    IF j.t # "num" THEN Fail(Er("invalid_type", j.t, <<n>>))
    ELSE IF Unsigned(n) /\ j.v[1] < 0 THEN Fail(Er("invalid_value", "negative", <<n>>))
    ELSE Ok(j.v[1])

DeBase(f, j) ==
    CASE f.k = "str" ->
            IF j.t = "str" THEN Ok(j.v[1])
            ELSE Fail(Er("invalid_type", j.t, <<"a string">>))
      [] f.k = "bool" ->
            IF j.t = "bool" THEN Ok(j.v[1])
            ELSE Fail(Er("invalid_type", j.t, <<"a boolean">>))
      [] f.k = "int" -> DeInt(f.n, j)
      [] f.k = "enum" -> DeEnum(f.n, j)
      [] f.k = "time" ->
            IF j.t = "str" THEN ParseTime(j.v[1])
            ELSE Fail(Er("invalid_type", j.t, <<"a formatted date and time string">>))
      [] f.k = "struct" -> DeStruct(f.n, j)

\* Vec<T>: every element in order; the first failure is the result.
DeInner(f, j) ==
    IF ~f.vec THEN DeBase(f, j)
    ELSE IF j.t # "arr" THEN Fail(Er("invalid_type", j.t, <<"a sequence">>))
    ELSE IF \A i \in DOMAIN j.v : DeBase(f, j.v[i]).ok
    THEN Ok([i \in DOMAIN j.v |-> DeBase(f, j.v[i]).val[1]])
    ELSE DeBase(f, j.v[First({i \in DOMAIN j.v : ~DeBase(f, j.v[i]).ok})])

SomeOf(r) == IF r.ok THEN Ok(Some(r.val[1])) ELSE r

\* Option<T>: null is None, anything else is Some(T).
DeField(f, j) ==
    IF f.opt
    THEN IF j.t = "null" THEN Ok(None) ELSE SomeOf(DeInner(f, j))
    ELSE DeInner(f, j)

\* A declared field the document does not carry: None for an Option, the
\* default under #[serde(default)], an error otherwise.
MissingField(f) ==
    IF f.opt THEN Ok(None)
    ELSE IF f.dflt THEN Ok(FieldDefault(f))
    ELSE Fail(Er("missing_field", f.key, <<>>))

FieldIndex(s, key) == {i \in DOMAIN Fields(s) : Fields(s)[i].key = key}

\* plausible slip: #[serde(deny_unknown_fields)]
UnknownKeyDenied(s, key) == Fail(Er("unknown_field", key, <<>>))

\* A key no field declares is skipped together with its value.
UnknownKey(s, key) == Ok(None)

\* visit_map, one member: skip an undeclared key, refuse a field already read,
\* otherwise read the value as the field's type.
MemberRead(s, members, at) ==
    LET idx == FieldIndex(s, members[at].k)
    IN  IF idx = {} THEN UnknownKey(s, members[at].k)
        ELSE IF \E b \in 1..(at - 1) : members[b].k = members[at].k
        THEN Fail(Er("duplicate_field", members[at].k, <<>>))
        ELSE DeField(Fields(s)[First(idx)], members[at].val)

\* visit_map, the loop: members in document order, stopping at the first failure.
VisitMap(s, members) ==
    IF \A a \in DOMAIN members : MemberRead(s, members, a).ok
    THEN Ok(None)
    ELSE MemberRead(s, members,
                    First({a \in DOMAIN members : ~MemberRead(s, members, a).ok}))

\* After the loop: a field no member set is filled as MissingField says, in
\* declaration order, and the record is built.
Build(s, members) ==
    LET F == Fields(s)
        absent == {i \in DOMAIN F : \A a \in DOMAIN members : members[a].k # F[i].key}
        slot(i) == IF i \in absent THEN MissingField(F[i])
                   ELSE MemberRead(s, members,
                                   First({a \in DOMAIN members : members[a].k = F[i].key}))
    IN  IF \E i \in absent : ~MissingField(F[i]).ok
        THEN MissingField(F[First({i \in absent : ~MissingField(F[i]).ok})])
        ELSE Ok([x \in FieldNames(s) |->
                    slot(CHOOSE i \in DOMAIN F : F[i].name = x).val[1]])

\* visit_seq: the fields by position; a short array is an invalid length, a
\* long one leaves trailing input.
SeqRead(s, items, i) ==
    IF i <= Len(items) THEN DeField(Fields(s)[i], items[i])
    ELSE Fail(Er("invalid_length", s, <<ToString(i - 1)>>))

VisitSeq(s, items) ==
    LET F == Fields(s)
    IN  IF \E i \in DOMAIN F : ~SeqRead(s, items, i).ok
        THEN SeqRead(s, items, First({i \in DOMAIN F : ~SeqRead(s, items, i).ok}))
        ELSE IF Len(items) > Len(F)
        THEN Fail(Er("syntax", "trailing characters", <<>>))
        ELSE Ok([x \in FieldNames(s) |->
                    SeqRead(s, items, CHOOSE i \in DOMAIN F : F[i].name = x).val[1]])

DeStruct(s, j) ==
    IF j.t = "obj"
    THEN IF VisitMap(s, j.v).ok THEN Build(s, j.v) ELSE VisitMap(s, j.v)
    ELSE IF j.t = "arr" THEN VisitSeq(s, j.v)
    ELSE Fail(Er("invalid_type", j.t, <<"struct " \o s>>))

\* ---------------------------------------------------------------------------
\* Inputs: the values a caller may put in a field, the documents and member
\* values the transport may deliver.
\* ---------------------------------------------------------------------------

\* The records the layer's callers build, send and receive.
RecordTypes ==
    {"ConsumerConfig", "StreamConfig", "StreamInfo", "StreamState", "ConsumerInfo",
     "AccountInfo", "PubAck", "CreateConsumerRequest", "NextRequest",
     "StreamRequest", "SubOpts", "PubOpts"}

Names == {"", "orders"}

IntVals(n) == IF Unsigned(n) THEN {0, 7} ELSE {-1, 0, 7}

LeafVals(f) ==
    CASE f.k = "str" -> Names
      [] f.k = "bool" -> BOOLEAN
      [] f.k = "int" -> IntVals(f.n)
      [] f.k = "enum" -> Variants(f.n)
      [] f.k = "time" -> TimeVals

\* Fewer values for the fields of an embedded record.
EmbeddedLeafVals(f) ==
    CASE f.k = "str" -> {"orders"}
      [] f.k = "bool" -> {TRUE}
      [] f.k = "int" -> {7}
      [] f.k = "enum" -> Variants(f.n)
      [] f.k = "time" -> {Time(1, 500000000)}

Wrap(f, xs) ==
    LET inner == IF f.vec THEN {<<>>, <<"orders">>, <<"orders", "jobs">>} ELSE xs
    IN  IF f.opt THEN {None} \cup {Some(x) : x \in inner} ELSE inner

\* An embedded record: the default one, or the default with one field changed.
StructVals(s) ==
    LET F == Fields(s)
    IN  {DefaultOf(s)} \cup
        UNION {{[DefaultOf(s) EXCEPT ![F[i].name] = x] :
                    x \in Wrap(F[i], EmbeddedLeafVals(F[i]))}
               : i \in {h \in DOMAIN F : F[h].k # "struct"}}

FieldVals(f) ==
    Wrap(f, IF f.k = "struct" THEN StructVals(f.n) ELSE LeafVals(f))

\* Member values of the wrong shape, or of an alternative accepted shape.
WireVals(f) ==
    {JNull, JStr("bogus"), JNum(-1)} \cup
    (CASE f.k = "enum" -> {JObj(<<Member(VariantTag(f.n, EnumDefault(f.n)), JNull)>>)}
       [] f.k = "time" -> {JStr(Rfc3339(Time(1, 1), "+00:00"))}
       [] f.k = "struct" -> {JArr(<<>>)}
       [] OTHER -> {})

UnknownKeys == {"extra"}

UnknownVals == {JStr("bogus"), JObj(<<Member("name", JNum(-1))>>)}

\* Documents as a broker may author them.
Fixtures ==
    { [ty |-> "StreamConfig",
       doc |-> JObj(<<Member("retention", JStr("workqueue")),
                      Member("name", JStr("jobs"))>>)],
      [ty |-> "ConsumerConfig",
       doc |-> JObj(<<Member("ack_policy", JStr("bogus"))>>)],
      [ty |-> "ConsumerConfig", doc |-> JObj(<<>>)],
      [ty |-> "StreamConfig",
       doc |-> JObj(<<Member("name", JStr("jobs")),
                      Member("retention", JStr("limits")),
                      Member("max_consumers", JNum(-1)),
                      Member("max_msgs", JNum(-1)),
                      Member("max_bytes", JNum(-1)),
                      Member("discard", JStr("old")),
                      Member("max_age", JNum(0)),
                      Member("storage", JStr("file")),
                      Member("num_replicas", JNum(1))>>)],
      [ty |-> "PubAck",
       doc |-> JObj(<<Member("stream", JStr("jobs")), Member("seq", JNum(7))>>)] }

\* ---------------------------------------------------------------------------
\* The life of one value: construct, update, encode, (transport), decode
\* ---------------------------------------------------------------------------

Init ==
    /\ ty = "ConsumerConfig"
    /\ rec = Some(DefaultOf("ConsumerConfig"))
    /\ doc = None
    /\ res = None
    /\ last = "default"
    /\ origin = "none"
    /\ arg = ""
    /\ edits = 0

\* One value is followed at a time: the next one is taken up once the caller
\* holds the decoded record of the previous one.
Idle == last = "adopt"

\* T::default()
NewDefault(t) ==
    /\ Idle
    /\ ty' = t
    /\ rec' = Some(DefaultOf(t))
    /\ doc' = None
    /\ res' = None
    /\ last' = "default"
    /\ origin' = "none"
    /\ arg' = ""
    /\ edits' = 0

\* StreamConfig::from(s), ConsumerConfig::from(s)
NewFrom(t, s) ==
    /\ Idle
    /\ ty' = t
    /\ rec' = Some(IF t = "StreamConfig" THEN StreamConfigFrom(s)
                   ELSE ConsumerConfigFrom(s))
    /\ doc' = None
    /\ res' = None
    /\ last' = "from"
    /\ origin' = "none"
    /\ arg' = s
    /\ edits' = 0

\* Struct-update of one public field of the value in hand.
SetField ==
    /\ rec # None /\ doc = None
    /\ edits < MaxEdits
    /\ \E i \in DOMAIN Fields(ty) :
         \E x \in FieldVals(Fields(ty)[i]) :
            /\ x # rec[1][Fields(ty)[i].name]
            /\ rec' = Some([rec[1] EXCEPT ![Fields(ty)[i].name] = x])
    /\ last' = "update"
    /\ edits' = edits + 1
    /\ UNCHANGED <<ty, doc, res, origin, arg>>

\* Serialize the value in hand.
Encode ==
    /\ rec # None /\ doc = None
    /\ doc' = Some(SerStruct(ty, rec[1]))
    /\ res' = None
    /\ last' = "encode"
    /\ origin' = "encoded"
    /\ UNCHANGED <<ty, rec, arg, edits>>

\* The transport hands over a document for a record type.
Recv(fx) ==
    /\ Idle
    /\ ty' = fx.ty
    /\ rec' = None
    /\ doc' = Some(fx.doc)
    /\ res' = None
    /\ last' = "recv"
    /\ origin' = "wire"
    /\ arg' = ""
    /\ edits' = 0

Altered(members) ==
    /\ doc' = Some(JObj(members))
    /\ last' = "alter"
    /\ origin' = "wire"
    /\ edits' = edits + 1
    /\ UNCHANGED <<ty, rec, res, arg>>

CanAlter == doc # None /\ res = None /\ edits < MaxEdits

\* The document arrives without one of its members.
DropKey ==
    /\ CanAlter
    /\ \E i \in DOMAIN doc[1].v :
          Altered([h \in 1..(Len(doc[1].v) - 1) |->
                     IF h < i THEN doc[1].v[h] ELSE doc[1].v[h + 1]])

\* The document arrives with another value under one of its keys.
PutValue ==
    /\ CanAlter
    /\ \E i \in DOMAIN doc[1].v :
         \E h \in FieldIndex(ty, doc[1].v[i].k) :
            \E j \in WireVals(Fields(ty)[h]) :
               Altered([doc[1].v EXCEPT ![i] = Member(doc[1].v[i].k, j)])

\* The document arrives with a member the record does not declare, first or last.
AddUnknown ==
    /\ CanAlter
    /\ \E k \in UnknownKeys, j \in UnknownVals, front \in BOOLEAN :
          Altered(IF front THEN <<Member(k, j)>> \o doc[1].v
                  ELSE Append(doc[1].v, Member(k, j)))

\* An embedded object arrives with a member its record does not declare.
AddUnknownNested ==
    /\ CanAlter
    /\ \E i \in DOMAIN doc[1].v, k \in UnknownKeys, j \in UnknownVals :
          /\ doc[1].v[i].val.t = "obj"
          /\ Altered([doc[1].v EXCEPT
                        ![i] = Member(doc[1].v[i].k,
                                      JObj(Append(doc[1].v[i].val.v, Member(k, j))))])

\* The document arrives with one of its members repeated.
Duplicate ==
    /\ CanAlter
    /\ \E i \in DOMAIN doc[1].v : Altered(Append(doc[1].v, doc[1].v[i]))

\* Deserialize the document in hand into the expected record type.
Decode ==
    /\ doc # None /\ res = None
    /\ res' = Some(DeStruct(ty, doc[1]))
    /\ last' = "decode"
    /\ UNCHANGED <<ty, rec, doc, origin, arg, edits>>

\* The caller keeps the decoded record as its value.
Adopt ==
    /\ res # None /\ res[1].ok
    /\ rec' = Some(res[1].val[1])
    /\ doc' = None
    /\ res' = None
    /\ last' = "adopt"
    /\ origin' = "none"
    /\ UNCHANGED <<ty, arg, edits>>

Next ==
    \/ \E t \in RecordTypes : NewDefault(t)
    \/ \E t \in {"StreamConfig", "ConsumerConfig"}, s \in Names : NewFrom(t, s)
    \/ SetField
    \/ Encode
    \/ \E fx \in Fixtures : Recv(fx)
    \/ DropKey
    \/ PutValue
    \/ AddUnknown
    \/ AddUnknownNested
    \/ Duplicate
    \/ Decode
    \/ Adopt

Spec == Init /\ [][Next]_vars

\* ---------------------------------------------------------------------------
\* Vocabulary of the properties
\* ---------------------------------------------------------------------------

\* The documented table of wire tags.
DocumentedTags(e) ==
    CASE e = "DeliverPolicy" -> {"all", "last", "new", "by_start_sequence", "by_start_time"}
      [] e = "AckPolicy" -> {"none", "all", "explicit"}
      [] e = "ReplayPolicy" -> {"instant", "original"}
      [] e = "RetentionPolicy" -> {"limits", "interest", "workqueue"}
      [] e = "DiscardPolicy" -> {"old", "new"}
      [] e = "StorageType" -> {"file", "memory"}

ConfigRecords == {"ConsumerConfig", "StreamConfig"}

StatusAndConfigRecords ==
    ConfigRecords \cup {"StreamInfo", "StreamState", "ConsumerInfo", "AccountInfo", "PubAck"}

PolicyFields(s) == {i \in DOMAIN Fields(s) : Fields(s)[i].k = "enum"}

OptionalFields(s) == {i \in DOMAIN Fields(s) : Fields(s)[i].opt}

HasKey(j, key) == \E a \in DOMAIN j.v : j.v[a].k = key

\* The value under the first member named key.
Get(j, key) == j.v[First({a \in DOMAIN j.v : j.v[a].k = key})].val

Decoded == last = "decode"

\* The document without the members no record declares, at any depth.
RECURSIVE StripUnknown(_, _)
StripUnknown(s, j) ==
    IF j.t # "obj" THEN j
    ELSE LET kept == SelectSeq(j.v, LAMBDA m : FieldIndex(s, m.k) # {})
         IN  JObj([a \in DOMAIN kept |->
                     LET f == Fields(s)[First(FieldIndex(s, kept[a].k))]
                     IN  IF f.k = "struct" /\ ~f.vec
                         THEN Member(kept[a].k, StripUnknown(f.n, kept[a].val))
                         ELSE kept[a]])

\* Some member, at some depth, is declared by no record.
RECURSIVE HasUnknown(_, _)
HasUnknown(s, j) ==
    /\ j.t = "obj"
    /\ \E a \in DOMAIN j.v :
          \/ FieldIndex(s, j.v[a].k) = {}
          \/ \E i \in FieldIndex(s, j.v[a].k) :
                /\ Fields(s)[i].k = "struct"
                /\ HasUnknown(Fields(s)[i].n, j.v[a].val)

PairLeq(a, b) == a.consumer_seq <= b.consumer_seq /\ a.stream_seq <= b.stream_seq

Ordered(info) == PairLeq(info.ack_floor, info.delivered)

DocPair(j, key) ==
    [consumer_seq |-> Get(Get(j, key), "consumer_seq").v[1],
     stream_seq |-> Get(Get(j, key), "stream_seq").v[1]]

DocOrdered(j) == PairLeq(DocPair(j, "ack_floor"), DocPair(j, "delivered"))

\* ---------------------------------------------------------------------------
\* Properties
\* ---------------------------------------------------------------------------

\* C1: round-trip law. Decoding the document a record was encoded to succeeds
\* and yields a record equal to it in every field.
C1_RoundTrip ==
    (Decoded /\ origin = "encoded") => (res[1].ok /\ res[1].val[1] = rec[1])

\* C1 witness: a consumer configuration with a sub-second start time has been
\* encoded and decoded back.
C1_Witness ==
    /\ Decoded /\ origin = "encoded" /\ ty = "ConsumerConfig"
    /\ rec[1].opt_start_time = Some(Time(1, 500000000))
    /\ res[1].ok

\* C2: the policy tags on the wire are exactly those of the documented table.
\* Every policy field of an encoded document carries a string tag of the
\* table, and a decoded policy field holds the variant that encodes to the
\* table tag the document carried.
C2_TagsAreDocumented ==
    /\ last = "encode" =>
          \A i \in PolicyFields(ty) :
             LET j == Get(doc[1], Fields(ty)[i].key)
             IN  j.t = "str" /\ j.v[1] \in DocumentedTags(Fields(ty)[i].n)
    /\ (Decoded /\ res[1].ok) =>
          \A i \in PolicyFields(ty) :
             LET j == Get(doc[1], Fields(ty)[i].key)
             IN  (HasKey(doc[1], Fields(ty)[i].key) /\ j.t = "str")
                 => /\ j.v[1] \in DocumentedTags(Fields(ty)[i].n)
                    /\ VariantTag(Fields(ty)[i].n, res[1].val[1][Fields(ty)[i].name]) = j.v[1]

\* C3: decoding a document whose policy field carries a tag outside the
\* documented table fails with an unknown-variant error naming the enumeration
\* and the tag; {"ack_policy":"bogus"} fails with UnknownVariant(AckPolicy, bogus).
C3_UndocumentedTagRejected ==
    Decoded =>
       \A a \in DOMAIN doc[1].v :
          \A i \in FieldIndex(ty, doc[1].v[a].k) \cap PolicyFields(ty) :
             LET j == doc[1].v[a].val
                 e == Fields(ty)[i].n
             IN  (/\ j.t = "str" /\ j.v[1] \notin DocumentedTags(e)
                  /\ \A b \in 1..(a - 1) : MemberRead(ty, doc[1].v, b).ok)
                 => /\ ~res[1].ok
                    /\ res[1].err.kind = "unknown_variant"
                    /\ res[1].err.what = j.v[1]
                    /\ e \in Range(res[1].err.exp)

\* C4: default-absence law. The encoded document carries no key for an
\* optional field that is unset.
C4_UnsetOmitted ==
    last = "encode" =>
       \A i \in OptionalFields(ty) :
          rec[1][Fields(ty)[i].name] = None => ~HasKey(doc[1], Fields(ty)[i].key)

\* C5: decoding a configuration document that lacks a policy field (and is
\* otherwise readable, the stream name present) succeeds with the field at the
\* enumeration's default.
C5_AbsentPolicyDefaults ==
    (/\ Decoded /\ ty \in ConfigRecords
     /\ VisitMap(ty, doc[1].v).ok
     /\ ty = "StreamConfig" => HasKey(doc[1], "name"))
    => \A i \in PolicyFields(ty) :
          ~HasKey(doc[1], Fields(ty)[i].key)
          => /\ res[1].ok
             /\ res[1].val[1][Fields(ty)[i].name] = EnumDefault(Fields(ty)[i].n)

\* C6: members no record declares are ignored. Decoding a status or
\* configuration document that carries such members gives what decoding it
\* without them gives, a record or the same failure.
C6_UnknownIgnored ==
    (Decoded /\ ty \in StatusAndConfigRecords /\ HasUnknown(ty, doc[1]))
    => res[1] = DeStruct(ty, StripUnknown(ty, doc[1]))

\* C6 witness: a stream info document carrying an undeclared member has been
\* decoded into a record.
C6_Witness ==
    /\ Decoded /\ ty = "StreamInfo"
    /\ HasKey(doc[1], "extra")
    /\ res[1].ok

\* C7: default instantiation of the two configuration records.
C7_Defaults ==
    last = "default" =>
       /\ ty = "ConsumerConfig" =>
             /\ rec[1].ack_policy = "AckExplicit"
             /\ rec[1].deliver_policy = "DeliverAllPolicy"
             /\ rec[1].replay_policy = "ReplayInstant"
             /\ \A i \in OptionalFields(ty) : rec[1][Fields(ty)[i].name] = None
       /\ ty = "StreamConfig" =>
             /\ rec[1].retention = "LimitsPolicy"
             /\ rec[1].discard = "DiscardOld"
             /\ rec[1].storage = "FileStorage"
             /\ \A i \in OptionalFields(ty) : rec[1][Fields(ty)[i].name] = None
             /\ rec[1].name = ""
             /\ \A x \in {"max_consumers", "max_msgs", "max_bytes", "max_age",
                          "num_replicas"} : rec[1][x] = 0

\* C7 witness: a default stream configuration has been constructed.
C7_Witness == last = "default" /\ ty = "StreamConfig" /\ rec # None

\* C8: the name-only constructors set the identifying field and leave every
\* other field as in the default instance.
C8_NameOnly ==
    last = "from" =>
       /\ ty = "StreamConfig" =>
             /\ rec[1].name = arg
             /\ rec[1].subjects = None
             /\ \A x \in FieldNames(ty) \ {"name"} :
                   rec[1][x] = DefaultOf(ty)[x]
       /\ ty = "ConsumerConfig" =>
             /\ rec[1].durable_name = Some(arg)
             /\ \A x \in FieldNames(ty) \ {"durable_name"} :
                   rec[1][x] = DefaultOf(ty)[x]

\* C8 witness: a stream configuration has been built from the name "orders".
C8_Witness == last = "from" /\ ty = "StreamConfig" /\ arg = "orders"

\* The error kinds of the documented taxonomy, in the deserializer's terms.
DocumentedKinds == {"unknown_variant", "invalid_type", "missing_field", "custom"}

AllFieldKeys == UNION {FieldKeys(s) : s \in RecordTypes}

\* C9: a failed decode reports one error of the documented kinds, and the
\* error names the offending field or enumeration; a stream configuration
\* document without the key name fails with a missing-field error for name.
C9_ErrorNamesItsPlace ==
    (Decoded /\ ~res[1].ok) =>
       /\ res[1].val = None
       /\ res[1].err.kind \in DocumentedKinds
       /\ res[1].err.kind # "custom" =>
             \/ res[1].err.what \in AllFieldKeys \cup Enums
             \/ Range(res[1].err.exp) \cap Enums # {}

\* C10 as stated: every consumer info this layer produces, by default
\* construction or by decoding, has ack_floor <= delivered in both components.
C10_AlwaysOrdered ==
    ty = "ConsumerInfo" =>
       /\ last = "default" => Ordered(rec[1])
       /\ (Decoded /\ res[1].ok) => Ordered(res[1].val[1])

\* C10 amended: a default consumer info is ordered; a decoded one carries the
\* pairs of its document unchanged, so it is ordered exactly when they are.
C10_OrderedAsDocument ==
    ty = "ConsumerInfo" =>
       /\ last = "default" => Ordered(rec[1])
       /\ (Decoded /\ res[1].ok) => (Ordered(res[1].val[1]) <=> DocOrdered(doc[1]))

\* C10 witness: a consumer info whose ack floor is ahead of its delivered pair
\* has been decoded.
C10_Witness ==
    /\ Decoded /\ ty = "ConsumerInfo" /\ res[1].ok
    /\ ~Ordered(res[1].val[1])

====
